---- MODULE Spec2Model ----
(***************************************************************************)
(* Graphony: the Graph of graphony/graph.py.  A graph owns a node registry *)
(* (graphony.node), a relation registry (graphony.relation), an edge       *)
(* counter (graphony.edge) and the dict _relations; every Relation is a    *)
(* pair of incidence matrices A (source id x edge id -> True) and B (edge  *)
(* id x destination id -> weight).  Graph.__call__ is the eight-case       *)
(* query generator; its result is recorded as the edges yielded so far     *)
(* and the exception, if any, that ended the iteration.                    *)
(***************************************************************************)
EXTENDS Integers, Sequences, FiniteSets, TLC

\* ---------------------------------------------------------------- bounds
MaxCalls == 2                 \* add calls made in one behaviour

\* ---------------------------------------------------------------- inputs
NodeNames == {"alice", "bob"}
\* relation names are character sequences, so that str.isidentifier() and
\* str.startswith("_") are computed and not assumed
RelNames == {<<"f">>, <<"_", "f">>, <<"9">>}
Weights == {"True", "42"}
None == "None"                \* None as a source or destination argument
NoId == 0                     \* None as a node, relation or edge id
NoRel == <<>>                 \* None as a relation argument
AnyPolicies == {"lowest", "highest"}

Letters == {"a", "b", "c", "d", "e", "f", "g", "h", "i", "j", "k", "l", "m",
            "n", "o", "p", "q", "r", "s", "t", "u", "v", "w", "x", "y", "z"}
Digits == {"0", "1", "2", "3", "4", "5", "6", "7", "8", "9"}

VARIABLES
    node_ids,      \* graphony.node: n_name -> n_id
    relation_ids,  \* graphony.relation: r_name -> r_id
    edge_count,    \* graphony.edge: number of e_id values handed out
    relations,     \* Graph._relations: r_id -> Relation, in insertion order
    any_pick,      \* which entry the ANY monoid of this build keeps
    calls,         \* number of Graph._add calls so far
    res            \* the last operation and what its caller observed

vars == <<node_ids, relation_ids, edge_count, relations, any_pick, calls, res>>

graph == <<node_ids, relation_ids, edge_count, relations>>

\* ------------------------------------------------------------- utilities
Max(S) == CHOOSE x \in S : \A y \in S : y <= x

Min(S) == CHOOSE x \in S : \A y \in S : x <= y

RECURSIVE Ascending(_)
\* the indices of a sparse vector, in the order its iterator gives them
Ascending(S) == IF S = {} THEN <<>>
                ELSE <<Min(S)>> \o Ascending(S \ {Min(S)})

\* type(weight)
TypeOf(w) == IF w = "True" THEN "bool" ELSE "int"

\* str.isidentifier()
IsIdentifier(name) ==
    /\ Len(name) > 0
    /\ name[1] \in Letters \cup {"_"}
    /\ \A i \in 2..Len(name) : name[i] \in Letters \cup Digits \cup {"_"}

\* str.startswith("_")
StartsWithUnderscore(name) == Len(name) > 0 /\ name[1] = "_"

\* the condition of the name check in Graph._add
BadRelationName(name) == ~IsIdentifier(name) \/ StartsWithUnderscore(name)

\* `assert NameError(...)`: the operand is an exception object, which is
\* truthy, so the statement never raises
NameCheckRaises(name) == BadRelationName(name) /\ FALSE

\* ------------------------------------------------------------ registries
\* The registry methods are SQL statements run against tables that are only
\* ever appended to.  A SELECT that finds no row gives None, the value that
\* Graph.__getitem__ tests for.  lru_cache memoises the methods; the model
\* reads the tables themselves.
\* an insert without ON CONFLICT: every call mints an id
UpsertNodeAlways(ids, name) ==
    [n \in DOMAIN ids \cup {name} |->
        IF n = name THEN 1 + Max({0} \cup {ids[m] : m \in DOMAIN ids})
        ELSE ids[n]]

\* Graph._upsert_node: INSERT ... ON CONFLICT ... RETURNING n_id
UpsertNode(ids, name) ==
    IF name \in DOMAIN ids THEN ids
    ELSE [n \in DOMAIN ids \cup {name} |->
            IF n = name THEN Cardinality(DOMAIN ids) + 1 ELSE ids[n]]

\* Graph._get_node_id: SELECT n_id ... where n_name = %s
GetNodeId(name) == IF name \in DOMAIN node_ids THEN node_ids[name] ELSE NoId

\* Graph._get_node_name: SELECT n_name ... where n_id = %s
GetNodeName(id) ==
    IF \E n \in DOMAIN node_ids : node_ids[n] = id
    THEN CHOOSE n \in DOMAIN node_ids : node_ids[n] = id
    ELSE None

\* Graph._upsert_relation: INSERT ... ON CONFLICT ... RETURNING r_id
UpsertRelation(ids, name) ==
    IF name \in DOMAIN ids THEN ids
    ELSE [n \in DOMAIN ids \cup {name} |->
            IF n = name THEN Cardinality(DOMAIN ids) + 1 ELSE ids[n]]

\* Graph._get_relation_id: SELECT r_id ... where r_name = %s
GetRelationId(name) ==
    IF name \in DOMAIN relation_ids THEN relation_ids[name] ELSE NoId

\* an edge id computed from the edge ids the relations hold
NewEdgeFromStored(count) ==
    1 + Max({0} \cup UNION {{p[2] : p \in relations[r].A} :
                               r \in DOMAIN relations})

\* Graph._new_edge: INSERT INTO graphony.edge ... RETURNING e_id, a serial
NewEdge(count) == count + 1

\* Relation.__init__: two empty matrices, B typed by the first weight
NewRelation(rid, name, weight_type) ==
    [rid |-> rid, name |-> name, wtype |-> weight_type, A |-> {}, B |-> <<>>]

\* Relation.add: A[sid, eid] = True ; B[eid, did] = weight
RelationAdd(rel, sid, eid, did, weight) ==
    [rel EXCEPT
        !.A = @ \cup {<<sid, eid>>},
        !.B = [p \in DOMAIN @ \cup {<<eid, did>>} |->
                 IF p = <<eid, did>> THEN weight ELSE @[p]]]

\* --------------------------------------------------------------- results
\* what iterating a generator gave: the edges yielded, then the exception
\* that ended it ("none" when it was exhausted)
Result(out, err) == [out |-> out, err |-> err]

\* Edge(graph, rid, sid, did, weight, eid)
Edge(rid, sid, did, weight, eid) ==
    [rid |-> rid, sid |-> sid, did |-> did, weight |-> weight, eid |-> eid]

\* a lookup that hands back whatever the registry gave and never raises
GetItemNoRaise(key) == [val |-> GetNodeId(key), err |-> "none"]

\* Graph.__getitem__ with a str key: the node id, or KeyError
GetItem(key) ==
    LET id == GetNodeId(key)
    IN  IF id = NoId THEN [val |-> NoId, err |-> "KeyError"]
        ELSE [val |-> id, err |-> "none"]

\* Graph.__getitem__ with an int key: the node name, or KeyError
GetItemById(key) ==
    LET id == GetNodeName(key)
    IN  IF id = None THEN [val |-> None, err |-> "KeyError"]
        ELSE [val |-> id, err |-> "none"]

\* ---------------------------------------------------------------- matrices
\* rel.A[sid]: the edge ids stored in row sid of A
RowA(rel, sid) == {p[2] : p \in {q \in rel.A : q[1] = sid}}

\* the edge ids k with A[sid, k] and B[k, did] both stored
Links(rel, sid, did) == {e \in RowA(rel, sid) : <<e, did>> \in DOMAIN rel.B}

\* the ANY monoid keeps one of the values it is given
AnyOf(S) == IF any_pick = "lowest" THEN Min(S) ELSE Max(S)

\* Relation.__call__(INT64.any_secondi): C = A any.secondi B, so C[s, d] is
\* the row index in B (an edge id) of one of the products A[s, k] * B[k, d]
AnySecondi(rel) ==
    LET sids == {p[1] : p \in rel.A}
        dids == {p[2] : p \in DOMAIN rel.B}
    IN  [p \in {q \in sids \X dids : Links(rel, q[1], q[2]) # {}} |->
            AnyOf(Links(rel, p[1], p[2]))]

\* C[sid]: the (column, value) pairs of one row
RowOf(C, sid) ==
    LET cols == Ascending({p[2] : p \in {q \in DOMAIN C : q[1] = sid}})
    IN  [i \in 1..Len(cols) |-> <<cols[i], C[<<sid, cols[i]>>]>>]

\* C[:, did]: the (row, value) pairs of one column
ColumnOf(C, did) ==
    LET rows == Ascending({p[1] : p \in {q \in DOMAIN C : q[2] = did}})
    IN  [i \in 1..Len(rows) |-> <<rows[i], C[<<rows[i], did>>]>>]

RECURSIVE TuplesFrom(_, _)
TuplesFrom(C, rows) ==
    IF rows = <<>> THEN <<>>
    ELSE LET r == RowOf(C, Head(rows))
         IN  [i \in 1..Len(r) |-> <<Head(rows), r[i][1], r[i][2]>>]
             \o TuplesFrom(C, Tail(rows))

\* iter(C): the (row, column, value) triples, row by row
TuplesOf(C) == TuplesFrom(C, Ascending({p[1] : p \in DOMAIN C}))

\* ------------------------------------------------------- Graph.__call__
\* the weight an Edge is given: B[eid, did] when weighted, else the local
\* `weight = True` set on entry
WeightOf(rel, eid, did, weighted) ==
    IF weighted THEN rel.B[<<eid, did>>] ELSE "True"

RECURSIVE LoopSRD(_, _, _, _, _, _, _)
\* source,relation,destination: every edge id of the source's row of A is
\* looked up in B at the destination; a missing element raises NoValue
LoopSRD(rid, rel, sid, did, weighted, eids, out) ==
    IF eids = <<>> THEN Result(out, "none")
    ELSE IF weighted /\ <<Head(eids), did>> \notin DOMAIN rel.B
         THEN Result(out, "NoValue")
         ELSE LoopSRD(rid, rel, sid, did, weighted, Tail(eids),
                      Append(out, Edge(rid, sid, did,
                                       WeightOf(rel, Head(eids), did, weighted),
                                       Head(eids))))

CallSRD(rid, sid, did, weighted) ==
    LoopSRD(rid, relations[rid], sid, did, weighted,
            Ascending(RowA(relations[rid], sid)), <<>>)

\* the edges of one row slice of one relation
RowEdges(rid, sid, weighted) ==
    LET rel == relations[rid]
        row == RowOf(AnySecondi(rel), sid)
    IN  [i \in 1..Len(row) |->
            Edge(rid, sid, row[i][1],
                 WeightOf(rel, row[i][2], row[i][1], weighted), row[i][2])]

\* source,relation,None
CallSR(rid, sid, weighted) == Result(RowEdges(rid, sid, weighted), "none")

\* a probe loop without the `except NoValue`: a miss ends the iteration
LoopSDNoCatch(rids, sid, did, weighted, out) ==
    IF rids = <<>> THEN Result(out, "none")
    ELSE IF <<sid, did>> \notin DOMAIN AnySecondi(relations[Head(rids)])
         THEN Result(out, "NoValue")
         ELSE Result(out, "UnboundLocalError")

RECURSIVE LoopSD(_, _, _, _, _)
\* source,None,destination: the loop variable is named `relation`, so the
\* local `rid` the Edge is built from was never bound on this path; a miss
\* raises NoValue, which is caught
LoopSD(rids, sid, did, weighted, out) ==
    IF rids = <<>> THEN Result(out, "none")
    ELSE IF <<sid, did>> \notin DOMAIN AnySecondi(relations[Head(rids)])
         THEN LoopSD(Tail(rids), sid, did, weighted, out)
         ELSE Result(out, "UnboundLocalError")

CallSD(sid, did, weighted) ==
    LoopSD(Ascending(DOMAIN relations), sid, did, weighted, <<>>)

\* a fan-out that stops after the first relation
LoopSFirstOnly(rids, sid, weighted) ==
    IF rids = <<>> THEN <<>> ELSE RowEdges(Head(rids), sid, weighted)

RECURSIVE LoopS(_, _, _)
LoopS(rids, sid, weighted) ==
    IF rids = <<>> THEN <<>>
    ELSE RowEdges(Head(rids), sid, weighted) \o LoopS(Tail(rids), sid, weighted)

\* source,None,None
CallS(sid, weighted) ==
    Result(LoopS(Ascending(DOMAIN relations), sid, weighted), "none")

\* None,relation,destination: the weight is not read on this path
CallRD(rid, did, weighted) ==
    LET col == ColumnOf(AnySecondi(relations[rid]), did)
    IN  Result([i \in 1..Len(col) |->
                   Edge(rid, col[i][1], did, "True", col[i][2])], "none")

\* the edges of a full iteration of one relation
AllEdges(rid, weighted) ==
    LET rel == relations[rid]
        t == TuplesOf(AnySecondi(rel))
    IN  [i \in 1..Len(t) |->
            Edge(rid, t[i][1], t[i][2],
                 WeightOf(rel, t[i][3], t[i][2], weighted), t[i][3])]

\* a relation-only query that iterates every relation
CallREveryRelation(rid, weighted) ==
    LET RECURSIVE Every(_)
        Every(rids) == IF rids = <<>> THEN <<>>
                       ELSE AllEdges(Head(rids), weighted) \o Every(Tail(rids))
    IN  Result(Every(Ascending(DOMAIN relations)), "none")

\* None,relation,None
CallR(rid, weighted) == Result(AllEdges(rid, weighted), "none")

\* a column slice taken as C[did] instead of C[:, did]
ColumnEdgesAsRow(rid, did, weighted) == RowEdges(rid, did, weighted)

\* the edges of one column slice of one relation
ColumnEdges(rid, did, weighted) ==
    LET rel == relations[rid]
        col == ColumnOf(AnySecondi(rel), did)
    IN  [i \in 1..Len(col) |->
            Edge(rid, col[i][1], did,
                 WeightOf(rel, col[i][2], did, weighted), col[i][2])]

RECURSIVE LoopD(_, _, _)
LoopD(rids, did, weighted) ==
    IF rids = <<>> THEN <<>>
    ELSE ColumnEdges(Head(rids), did, weighted)
         \o LoopD(Tail(rids), did, weighted)

\* None,None,destination
CallD(did, weighted) ==
    Result(LoopD(Ascending(DOMAIN relations), did, weighted), "none")

RECURSIVE LoopAllReversed(_, _)
\* a full iteration that visits the relations last-registered first
LoopAllReversed(rids, weighted) ==
    IF rids = <<>> THEN <<>>
    ELSE LoopAllReversed(Tail(rids), weighted)
         \o AllEdges(Head(rids), weighted)

RECURSIVE LoopAll(_, _)
LoopAll(rids, weighted) ==
    IF rids = <<>> THEN <<>>
    ELSE AllEdges(Head(rids), weighted) \o LoopAll(Tail(rids), weighted)

\* None,None,None
CallAll(weighted) ==
    Result(LoopAll(Ascending(DOMAIN relations), weighted), "none")

\* Graph.__call__(relation, source, destination, weighted): the names are
\* resolved in the order the code resolves them, then one case runs
Call(relation, source, destination, weighted) ==
    LET sid == GetItem(source)
        did == GetItem(destination)
        rid == GetRelationId(relation)
        KeyError == Result(<<>>, "KeyError")
    IN  IF source # None
        THEN IF sid.err # "none" THEN KeyError
             ELSE IF relation # NoRel
             THEN IF rid \notin DOMAIN relations THEN KeyError
                  ELSE IF destination # None
                  THEN IF did.err # "none" THEN KeyError
                       ELSE CallSRD(rid, sid.val, did.val, weighted)
                  ELSE CallSR(rid, sid.val, weighted)
             ELSE IF destination # None
                  THEN IF did.err # "none" THEN KeyError
                       ELSE CallSD(sid.val, did.val, weighted)
                  ELSE CallS(sid.val, weighted)
        ELSE IF relation # NoRel
        THEN IF rid \notin DOMAIN relations THEN KeyError
             ELSE IF destination # None
             THEN IF did.err # "none" THEN KeyError
                  ELSE CallRD(rid, did.val, weighted)
             ELSE CallR(rid, weighted)
        ELSE IF destination # None
        THEN IF did.err # "none" THEN KeyError
             ELSE CallD(did.val, weighted)
        ELSE CallAll(weighted)

\* Graph.__iter__
Iter == Call(NoRel, None, None, TRUE)

\* ------------------------------------------------------------------ Init
Init ==
    /\ node_ids = <<>>
    /\ relation_ids = <<>>
    /\ edge_count = 0
    /\ relations = <<>>
    /\ any_pick \in AnyPolicies
    /\ calls = 0
    /\ res = [op |-> "none"]

\* --------------------------------------------------------------- actions
\* Graph._add(relation, source, destination, weight, eid), reached through
\* G += (relation, source, destination[, weight[, eid]]).  A weight offered
\* to an existing relation is of that relation's weight type.
Add(relation, source, destination, weight, eid) ==
    /\ calls < MaxCalls
    /\ res.op \in {"none", "add"}
    /\ eid = NoId \/ eid \in 1..edge_count
    /\ relation \in DOMAIN relation_ids =>
           relations[relation_ids[relation]].wtype = TypeOf(weight)
    /\ calls' = calls + 1
    /\ IF NameCheckRaises(relation)
       THEN /\ res' = [op |-> "add", relation |-> relation, source |-> source,
                       destination |-> destination, weight |-> weight,
                       given |-> eid, eid |-> NoId, err |-> "NameError"]
            /\ UNCHANGED <<node_ids, relation_ids, edge_count, relations>>
       ELSE LET ids1 == UpsertNode(node_ids, source)
                sid == ids1[source]
                ids2 == UpsertNode(ids1, destination)
                did == ids2[destination]
                e == IF eid = NoId THEN NewEdge(edge_count) ELSE eid
                rids == UpsertRelation(relation_ids, relation)
                rid == rids[relation]
                rel == IF rid \notin DOMAIN relations
                       THEN NewRelation(rid, relation, TypeOf(weight))
                       ELSE relations[rid]
            IN  /\ node_ids' = ids2
                /\ edge_count' = IF eid = NoId THEN NewEdge(edge_count)
                                 ELSE edge_count
                /\ relation_ids' = rids
                /\ relations' =
                     [r \in DOMAIN relations \cup {rid} |->
                        IF r = rid THEN RelationAdd(rel, sid, e, did, weight)
                        ELSE relations[r]]
                /\ res' = [op |-> "add", relation |-> relation,
                           source |-> source, destination |-> destination,
                           weight |-> weight, given |-> eid, eid |-> e,
                           err |-> "none"]
    /\ UNCHANGED any_pick

\* The caller is single-threaded: it issues one operation at a time and is
\* done with the result of a query or lookup (Release) before the next one.

\* a query that resolves its source with the upsert instead of the select
QueryMinting(relation, source, destination) ==
    /\ res.op \in {"none", "add"}
    /\ LET r == Call(relation, source, destination, TRUE)
       IN  res' = [op |-> "call", relation |-> relation, source |-> source,
                   destination |-> destination, out |-> r.out, err |-> r.err]
    /\ node_ids' = IF source = None THEN node_ids
                   ELSE UpsertNode(node_ids, source)
    /\ UNCHANGED <<relation_ids, edge_count, relations, any_pick, calls>>

\* list(G(relation, source, destination)): the generator is run to its end
Query(relation, source, destination) ==
    /\ res.op \in {"none", "add"}
    /\ LET r == Call(relation, source, destination, TRUE)
       IN  res' = [op |-> "call", relation |-> relation, source |-> source,
                   destination |-> destination, out |-> r.out, err |-> r.err]
    /\ UNCHANGED <<graph, any_pick, calls>>

\* list(G)
Iterate ==
    /\ res.op \in {"none", "add"}
    /\ res' = [op |-> "iter", out |-> Iter.out, err |-> Iter.err]
    /\ UNCHANGED <<graph, any_pick, calls>>

\* G[name]
Lookup(key) ==
    /\ res.op \in {"none", "add"}
    /\ res' = [op |-> "getitem", by |-> "name", key |-> key,
               val |-> GetItem(key).val,
               err |-> GetItem(key).err]
    /\ UNCHANGED <<graph, any_pick, calls>>

\* G[id]
LookupId(key) ==
    /\ res.op \in {"none", "add"}
    /\ res' = [op |-> "getitem", by |-> "id", key |-> key,
               val |-> GetItemById(key).val,
               err |-> GetItemById(key).err]
    /\ UNCHANGED <<graph, any_pick, calls>>

\* the caller is done with what a query, a lookup or a delete gave it
Release ==
    /\ res.op \notin {"none", "add"}
    /\ res' = [op |-> "none"]
    /\ UNCHANGED <<graph, any_pick, calls>>

Next ==
    \/ \E relation \in RelNames \cup {NoRel}, source \in NodeNames \cup {None},
          destination \in NodeNames \cup {None} :
            Query(relation, source, destination)
    \/ Iterate
    \/ \E key \in NodeNames : Lookup(key)
    \/ \E key \in 1..Cardinality(NodeNames) : LookupId(key)
    \/ Release
    \/ \E relation \in RelNames, source \in NodeNames,
          destination \in NodeNames, weight \in Weights,
          eid \in {NoId} :
            Add(relation, source, destination, weight, eid)

Spec == Init /\ [][Next]_vars

\* ------------------------------------------------------------ properties
NodeIds == {node_ids[n] : n \in DOMAIN node_ids}

\* the (relation, source, destination) triples the matrices hold: an edge
\* id joins the source in A to the destination in B
StoredTriples ==
    {t \in (DOMAIN relations) \X NodeIds \X NodeIds :
        \E e \in 1..edge_count :
            /\ <<t[2], e>> \in relations[t[1]].A
            /\ <<e, t[3]>> \in DOMAIN relations[t[1]].B}

Triples(out) == {<<out[i].rid, out[i].sid, out[i].did>> : i \in 1..Len(out)}

\* no triple is yielded twice
NoRepeat(out) == Cardinality(Triples(out)) = Len(out)

\* every yielded edge names an edge id that joins its endpoints
Joined(out) ==
    \A i \in 1..Len(out) :
        /\ out[i].rid \in DOMAIN relations
        /\ <<out[i].sid, out[i].eid>> \in relations[out[i].rid].A
        /\ <<out[i].eid, out[i].did>> \in DOMAIN relations[out[i].rid].B

\* every yielded edge carries the weight B holds for its edge id and
\* destination
Weighted(out) ==
    \A i \in 1..Len(out) :
        out[i].weight = relations[out[i].rid].B[<<out[i].eid, out[i].did>>]

IsCall == res.op = "call"

\* C1: after add(r, s, d, w), query(relation=r, source=s, destination=d)
\* yields exactly one result and that result carries weight w, also when s
\* has other edges in r to other destinations (the pair s, d itself is
\* stored once).
C1_RoundTrip ==
    [][(/\ res.op = "add"
        /\ res.err = "none"
        /\ res'.op = "call"
        /\ res'.relation = res.relation
        /\ res'.source = res.source
        /\ res'.destination = res.destination
        /\ Cardinality(Links(relations[relation_ids[res.relation]],
                             node_ids[res.source],
                             node_ids[res.destination])) = 1)
       => (/\ res'.err = "none"
           /\ Len(res'.out) = 1
           /\ res'.out[1].weight = res.weight)]_vars

C7_FanOutProbe ==
    (/\ IsCall
     /\ res.relation = NoRel
     /\ res.source \in DOMAIN node_ids
     /\ res.destination \in DOMAIN node_ids)
    => (/\ res.err = "none"
        /\ Triples(res.out) =
             {t \in StoredTriples : /\ t[2] = node_ids[res.source]
                                    /\ t[3] = node_ids[res.destination]}
        /\ NoRepeat(res.out))

\* C8: in each of the eight cases, with weighted lookup on (the default),
\* every yielded Edge carries the weight stored in its relation for its
\* (edge id, destination).
C8_StoredWeight ==
    IsCall =>
        \A i \in 1..Len(res.out) :
            /\ <<res.out[i].eid, res.out[i].did>>
                 \in DOMAIN relations[res.out[i].rid].B
            /\ res.out[i].weight =
                 relations[res.out[i].rid].B[<<res.out[i].eid, res.out[i].did>>]

\* C9: in cases 1, 2, 5 and 6 (relation bound) a query naming a relation,
\* source or destination that does not resolve raises KeyError and yields
\* nothing; so does graph[key] for an unknown name or id.
C9_MissingKey ==
    /\ (/\ IsCall
        /\ res.relation # NoRel
        /\ \/ res.relation \notin DOMAIN relation_ids
           \/ (res.source # None /\ res.source \notin DOMAIN node_ids)
           \/ (res.destination # None
               /\ res.destination \notin DOMAIN node_ids))
       => (res.err = "KeyError" /\ res.out = <<>>)
    /\ (res.op = "getitem" /\ res.by = "name" /\ res.key \notin DOMAIN node_ids)
       => res.err = "KeyError"
    /\ (res.op = "getitem" /\ res.by = "id" /\ res.key \notin NodeIds)
       => res.err = "KeyError"

\* a query on a relation that holds edges from a known source, naming a
\* destination the graph does not know
C9_Witness ==
    /\ IsCall
    /\ res.relation \in DOMAIN relation_ids
    /\ res.source \in DOMAIN node_ids
    /\ res.destination # None
    /\ res.destination \notin DOMAIN node_ids
    /\ \E t \in StoredTriples : /\ t[1] = relation_ids[res.relation]
                                /\ t[2] = node_ids[res.source]
    /\ res.err = "KeyError"

\* C10: Graph add with a relation name that is not a valid identifier, or
\* that starts with '_', raises a validation error and stores no edge for
\* that call.
C10_Validation ==
    [][(/\ calls' = calls + 1
        /\ res'.op = "add"
        /\ BadRelationName(res'.relation))
       => (res'.err = "NameError" /\ relations' = relations)]_vars

\* =========================================================================
\* Relation of graphony/relation.py and Property of graphony/property.py: a
\* relation is declared in adjacency mode (one matrix A, source id x
\* destination id -> weight) or in incidence mode (A, source id x edge id ->
\* True, and B, edge id x destination id -> weight).  Property stores edges
\* exactly as Relation does and differs in its queries.  Matrices are
\* functions from (row, column) pairs to values.
\* =========================================================================

\* ---------------------------------------------------------------- inputs
RNodeNames == {"a", "b", "c"}
\* an endpoint argument is one name or a tuple of names; a single name is
\* the tuple of length one
Sources == {<<"a">>, <<"a", "b">>}
Destinations == {<<"c">>, <<"b", "c">>}
\* the endpoints given to an adjacency relation
Singles == {<<"a">>, <<"b">>}
RWeights == {"42", "7"}
Slice == 0 - 1                \* slice(None) in a key
Graph == "graph"              \* the Graph a Relation belongs to

\* --------------------------------------------------------------- matrices
\* M[i, j] = v
SetElement(M, i, j, v) ==
    [p \in DOMAIN M \cup {<<i, j>>} |-> IF p = <<i, j>> THEN v ELSE M[p]]

\* M.nvals
NVals(M) == Cardinality(DOMAIN M)

\* v.indices and v.vals of a vector given as (index, value) pairs
Indices(v) == [i \in 1..Len(v) |-> v[i][1]]

Vals(v) == [i \in 1..Len(v) |-> v[i][2]]

\* M.T
Transpose(M) ==
    [p \in {<<q[2], q[1]>> : q \in DOMAIN M} |-> M[<<p[2], p[1]>>]]

\* M.rows: the row index of every stored entry, row by row
Rows(M) == LET t == TuplesOf(M) IN [i \in 1..Len(t) |-> t[i][1]]

\* ---------------------------------------------------------- constructors
\* Relation.__init__ and Property.__init__: the weight type is kept in the
\* matrix that holds the weights
InitRelation(rid, name, weight_type, incidence) ==
    [rid |-> rid, name |-> name, incidence |-> incidence,
     wtype |-> IF weight_type = None THEN "bool" ELSE weight_type,
     A |-> <<>>, B |-> IF incidence THEN <<>> ELSE None]

\* Edge(graph, rid, sid, did, weight=True, eid=None) of graphony/edge.py
EdgeTuple(g, rid, sid, did, weight, eid) ==
    [graph |-> g, rid |-> rid, sid |-> sid, did |-> did, weight |-> weight,
     eid |-> eid]

\* Hedge(graph, rid, sids, dids, weights=None, eid=None) of graphony/edge.py
Hedge(g, rid, sids, dids, weights, eid) ==
    [graph |-> g, rid |-> rid, sids |-> sids, dids |-> dids,
     weights |-> weights, eid |-> eid]

\* graph.get_node(name): the Node of that name, created on first reference
GetNode(ids, name) == UpsertNode(ids, name)

RECURSIVE GetNodes(_, _)
\* [self.graph.get_node(s) for s in source]
GetNodes(ids, names) ==
    IF names = <<>> THEN ids
    ELSE GetNodes(GetNode(ids, Head(names)), Tail(names))

\* ------------------------------------------------ Relation.add, Property.add
\* an attach that stops after the first source
AttachFirstSource(A, ids, sources, eid, A_weight) ==
    IF sources = <<>> THEN A
    ELSE SetElement(A, ids[Head(sources)], eid, A_weight)

RECURSIVE AttachSources(_, _, _, _, _)
\* for s in sources: self.A[s.n_id, eid] = A_weight
AttachSources(A, ids, sources, eid, A_weight) ==
    IF sources = <<>> THEN A
    ELSE AttachSources(SetElement(A, ids[Head(sources)], eid, A_weight),
                       ids, Tail(sources), eid, A_weight)

RECURSIVE AttachDestinations(_, _, _, _, _)
\* for d in destinations: self.B[eid, d.n_id] = weight
AttachDestinations(B, ids, destinations, eid, weight) ==
    IF destinations = <<>> THEN B
    ELSE AttachDestinations(SetElement(B, eid, ids[Head(destinations)], weight),
                            ids, Tail(destinations), eid, weight)

\* an adjacency add that leaves a pair it finds stored as it is
AddAdjacencyKeepFirst(rel, ids, source, destination, weight) ==
    IF <<ids[source[1]], ids[destination[1]]>> \in DOMAIN rel.A THEN rel
    ELSE [rel EXCEPT !.A = SetElement(@, ids[source[1]],
                                      ids[destination[1]], weight)]

\* the adjacency branch of add: A[source.n_id, destination.n_id] = weight
AddAdjacency(rel, ids, source, destination, weight) ==
    [rel EXCEPT !.A = SetElement(@, ids[source[1]], ids[destination[1]],
                                 weight)]

\* the incidence branch of add, once the edge id and the nodes are known
AddIncidence(rel, ids, source, destination, weight, eid) ==
    [rel EXCEPT !.A = AttachSources(@, ids, source, eid, "True"),
                !.B = AttachDestinations(@, ids, destination, eid, weight)]

\* ------------------------------------------------------- Relation queries
\* the edge ids k with A[sid, k] and B[k, did] both stored
IncLinks(rel, sid, did) ==
    {e \in 1..edge_count : /\ <<sid, e>> \in DOMAIN rel.A
                           /\ <<e, did>> \in DOMAIN rel.B}

\* self.A.any_second(self.B): C[s, d] is the B value of one of the products
AnySecond(rel) ==
    LET sids == {p[1] : p \in DOMAIN rel.A}
        dids == {p[2] : p \in DOMAIN rel.B}
    IN  [p \in {q \in sids \X dids : IncLinks(rel, q[1], q[2]) # {}} |->
            rel.B[<<AnyOf(IncLinks(rel, p[1], p[2])), p[2]>>]]

\* Relation.__getitem__, incidence, destination sliced: one Hedge per edge
\* id of the source's row of A, listing the queried source alone
RelationRowHedges(rel, sid) ==
    LET eids == Indices(RowOf(rel.A, sid))
    IN  [i \in 1..Len(eids) |->
            LET dids == RowOf(rel.B, eids[i])
            IN  Hedge(Graph, rel.rid, <<sid>>, Indices(dids), Vals(dids),
                      eids[i])]

\* Relation.__getitem__, incidence, source sliced: one Hedge per edge id of
\* the destination's column of B; weights is taken once, from that column
RelationColumnHedges(rel, did) ==
    LET BT == Transpose(rel.B)
        AT == Transpose(rel.A)
        eids == RowOf(BT, did)
        weights == Vals(eids)
    IN  [i \in 1..Len(eids) |->
            Hedge(Graph, rel.rid, Indices(RowOf(AT, eids[i][1])),
                  <<did>>, weights, eids[i][1])]

\* Relation.__getitem__, adjacency: a row or a column of A
RelationRowEdges(rel, sid) ==
    LET row == RowOf(rel.A, sid)
    IN  [i \in 1..Len(row) |->
            EdgeTuple(Graph, rel.rid, sid, row[i][1], row[i][2], NoId)]

RelationColumnEdges(rel, did) ==
    LET col == ColumnOf(rel.A, did)
    IN  [i \in 1..Len(col) |->
            EdgeTuple(Graph, rel.rid, col[i][1], did, col[i][2], NoId)]

\* Relation.__getitem__((sid, did)), a generator run to its end; a key has
\* at most one slice
RelationGetItem(rel, sid, did) ==
    IF rel.incidence
    THEN IF did = Slice THEN Result(RelationRowHedges(rel, sid), "none")
         ELSE IF sid = Slice
              THEN Result(RelationColumnHedges(rel, did), "none")
              ELSE IF <<sid, did>> \in DOMAIN AnySecond(rel)
                   THEN Result(<<Hedge(Graph, rel.rid, <<sid>>, <<did>>,
                                       <<AnySecond(rel)[<<sid, did>>]>>,
                                       NoId)>>, "none")
                   ELSE Result(<<>>, "NoValue")
    ELSE IF did = Slice THEN Result(RelationRowEdges(rel, sid), "none")
         ELSE IF sid = Slice
              THEN Result(RelationColumnEdges(rel, did), "none")
              \* self.a: a Relation has no such attribute
              ELSE Result(<<>>, "AttributeError")

\* Relation.__iter__: incidence yields once per entry of AT.rows
RelationIter(rel) ==
    IF rel.incidence
    THEN LET AT == Transpose(rel.A)
             eids == Rows(AT)
         IN  [i \in 1..Len(eids) |->
                LET dids == RowOf(rel.B, eids[i])
                IN  Hedge(Graph, rel.rid, Indices(RowOf(AT, eids[i])),
                          Indices(dids), Vals(dids), eids[i])]
    ELSE LET t == TuplesOf(rel.A)
         IN  [i \in 1..Len(t) |->
                EdgeTuple(Graph, rel.rid, t[i][1], t[i][2], t[i][3], NoId)]

\* a length that counts the entries of A in either mode
RelationLenOfA(rel) == NVals(rel.A)

\* Relation.__len__ and Property.__len__
RelationLen(rel) == IF rel.incidence THEN NVals(rel.B) ELSE NVals(rel.A)

\* ------------------------------------------------------- Property queries
\* `self` where a Property passes itself
Self(rel) == <<"Property", rel.rid>>

\* Property.__getitem__, incidence, destination sliced.  The Hedge is built
\* from five positional arguments (self, sids, dids, weights, eid), which
\* fill the fields graph, rid, sids, dids, weights; eid keeps its default
PropertyRowHedges(rel, sid) ==
    LET AT == Transpose(rel.A)
        eids == Indices(RowOf(rel.A, sid))
    IN  [i \in 1..Len(eids) |->
            LET dids == RowOf(rel.B, eids[i])
                sids == Indices(RowOf(AT, eids[i]))
            IN  Hedge(Self(rel), sids, Indices(dids), Vals(dids), eids[i],
                      NoId)]

\* Property.__getitem__, incidence, source sliced
PropertyColumnHedges(rel, did) ==
    LET AT == Transpose(rel.A)
        BT == Transpose(rel.B)
        eids == Indices(RowOf(BT, did))
    IN  [i \in 1..Len(eids) |->
            LET dids == RowOf(rel.B, eids[i])
                sids == Indices(RowOf(AT, eids[i]))
            IN  Hedge(Self(rel), sids, Indices(dids), Vals(dids), eids[i],
                      NoId)]

\* Property.__getitem__, incidence, both bound: seids.second(deids) keeps
\* the edge ids present in both vectors
PropertyPointHedges(rel, sid, did) ==
    LET AT == Transpose(rel.A)
        eids == Ascending(IncLinks(rel, sid, did))
    IN  [i \in 1..Len(eids) |->
            LET dids == RowOf(rel.B, eids[i])
                sids == Indices(RowOf(AT, eids[i]))
            IN  Hedge(Self(rel), sids, Indices(dids), Vals(dids), eids[i],
                      NoId)]

\* Property.__getitem__, adjacency: Edge(self, sid, did, weight) fills the
\* fields graph, rid, sid, did; weight and eid keep their defaults
PropertyRowEdges(rel, sid) ==
    LET row == RowOf(rel.A, sid)
    IN  [i \in 1..Len(row) |->
            EdgeTuple(Self(rel), sid, row[i][1], row[i][2], "True", NoId)]

PropertyColumnEdges(rel, did) ==
    LET col == ColumnOf(rel.A, did)
    IN  [i \in 1..Len(col) |->
            EdgeTuple(Self(rel), col[i][1], did, col[i][2], "True", NoId)]

\* Property.__getitem__((sid, did))
PropertyGetItem(rel, sid, did) ==
    IF rel.incidence
    THEN IF did = Slice THEN Result(PropertyRowHedges(rel, sid), "none")
         ELSE IF sid = Slice
              THEN Result(PropertyColumnHedges(rel, did), "none")
              ELSE Result(PropertyPointHedges(rel, sid, did), "none")
    ELSE IF did = Slice THEN Result(PropertyRowEdges(rel, sid), "none")
         ELSE IF sid = Slice
              THEN Result(PropertyColumnEdges(rel, did), "none")
              \* self.a: a Property has no such attribute
              ELSE Result(<<>>, "AttributeError")

\* Property.__iter__: one Hedge per edge id of set(AT.rows)
PropertyIter(rel) ==
    IF rel.incidence
    THEN LET AT == Transpose(rel.A)
             eids == Ascending({p[1] : p \in DOMAIN AT})
         IN  [i \in 1..Len(eids) |->
                LET dids == RowOf(rel.B, eids[i])
                IN  Hedge(Self(rel), Indices(RowOf(AT, eids[i])),
                          Indices(dids), Vals(dids), eids[i], NoId)]
    ELSE LET t == TuplesOf(rel.A)
         IN  [i \in 1..Len(t) |->
                EdgeTuple(Self(rel), t[i][1], t[i][2], t[i][3], "True", NoId)]

\* --------------------------------------------- relations declared up front
\* a relation is declared, with its mode and weight type, before any edge
\* is added to it: here one adjacency and one incidence relation
Declared ==
    [rid \in {1, 2} |->
        InitRelation(rid, IF rid = 1 THEN <<"d">> ELSE <<"h">>, "int",
                     rid = 2)]

InitR ==
    /\ node_ids = <<>>
    /\ relation_ids = [n \in {Declared[r].name : r \in DOMAIN Declared} |->
                         CHOOSE r \in DOMAIN Declared : Declared[r].name = n]
    /\ edge_count = 0
    /\ relations = Declared
    /\ any_pick \in AnyPolicies
    /\ calls = 0
    /\ res = [op |-> "none"]

\* the caller has no query result in hand
Idle == res.op \in {"none", "add"}

\* relation.add(source, destination, weight, eid), reached through
\* G.<name> += (source, destination[, weight[, eid]]).  An adjacency
\* relation is given single endpoints.
RAdd(rid, source, destination, weight, eid) ==
    /\ calls < MaxCalls
    /\ Idle
    /\ eid = NoId \/ eid \in 1..edge_count
    /\ TypeOf(weight) = relations[rid].wtype
    /\ IF relations[rid].incidence
       THEN source \in Sources /\ destination \in Destinations
       ELSE source \in Singles /\ destination \in Singles /\ eid = NoId
    /\ calls' = calls + 1
    /\ IF ~relations[rid].incidence
       THEN LET ids == GetNode(GetNode(node_ids, source[1]), destination[1])
            IN  /\ node_ids' = ids
                /\ edge_count' = edge_count
                /\ relations' =
                     [relations EXCEPT
                        ![rid] = AddAdjacency(@, ids, source, destination,
                                              weight)]
                /\ res' = [op |-> "add", rid |-> rid, source |-> source,
                           destination |-> destination, weight |-> weight,
                           given |-> eid, eid |-> NoId, err |-> "none"]
       ELSE LET e == IF eid = NoId THEN NewEdge(edge_count) ELSE eid
                ids == GetNodes(GetNodes(node_ids, source), destination)
            IN  /\ node_ids' = ids
                /\ edge_count' = IF eid = NoId THEN NewEdge(edge_count)
                                 ELSE edge_count
                /\ relations' =
                     [relations EXCEPT
                        ![rid] = AddIncidence(@, ids, source, destination,
                                              weight, e)]
                /\ res' = [op |-> "add", rid |-> rid, source |-> source,
                           destination |-> destination, weight |-> weight,
                           given |-> eid, eid |-> e, err |-> "none"]
    /\ UNCHANGED <<relation_ids, any_pick>>

\* list(relation[sid, did]) on a Relation
RGetItem(rid, sid, did) ==
    /\ Idle
    /\ sid # Slice \/ did # Slice
    /\ LET r == RelationGetItem(relations[rid], sid, did)
       IN  res' = [op |-> "slice", impl |-> "Relation", rid |-> rid,
                   sid |-> sid, did |-> did, out |-> r.out, err |-> r.err]
    /\ UNCHANGED <<graph, any_pick, calls>>

\* list(property[sid, did]) on a Property holding the same matrices
PGetItem(rid, sid, did) ==
    /\ Idle
    /\ sid # Slice \/ did # Slice
    /\ LET r == PropertyGetItem(relations[rid], sid, did)
       IN  res' = [op |-> "slice", impl |-> "Property", rid |-> rid,
                   sid |-> sid, did |-> did, out |-> r.out, err |-> r.err]
    /\ UNCHANGED <<graph, any_pick, calls>>

\* list(relation)
RIterate(rid) ==
    /\ Idle
    /\ res' = [op |-> "each", impl |-> "Relation", rid |-> rid,
               out |-> RelationIter(relations[rid])]
    /\ UNCHANGED <<graph, any_pick, calls>>

\* list(property)
PIterate(rid) ==
    /\ Idle
    /\ res' = [op |-> "each", impl |-> "Property", rid |-> rid,
               out |-> PropertyIter(relations[rid])]
    /\ UNCHANGED <<graph, any_pick, calls>>

\* len(relation)
RLen(rid) ==
    /\ Idle
    /\ res' = [op |-> "len", rid |-> rid, val |-> RelationLen(relations[rid])]
    /\ UNCHANGED <<graph, any_pick, calls>>

\* the keys asked for: every row slice, every column slice, and the points
\* of one row
Keys ==
    {<<n, Slice>> : n \in 1..Cardinality(RNodeNames)}
    \cup {<<Slice, n>> : n \in 1..Cardinality(RNodeNames)}
    \cup {<<1, n>> : n \in 2..Cardinality(RNodeNames)}

NextR ==
    \/ \E rid \in DOMAIN Declared, source \in Sources \cup Singles,
          destination \in Destinations \cup Singles, weight \in RWeights,
          eid \in 0..MaxCalls :
            RAdd(rid, source, destination, weight, eid)
    \/ \E rid \in DOMAIN Declared, key \in Keys : RGetItem(rid, key[1], key[2])
    \/ \E rid \in DOMAIN Declared, key \in Keys : PGetItem(rid, key[1], key[2])
    \/ \E rid \in DOMAIN Declared : RIterate(rid)
    \/ \E rid \in DOMAIN Declared : PIterate(rid)
    \/ \E rid \in DOMAIN Declared : RLen(rid)
    \/ Release

SpecR == InitR /\ [][NextR]_vars

\* ------------------------------------------- properties of SpecR
IsSlice == res.op = "slice"

\* the members of a list
Members(seq) == {seq[i] : i \in 1..Len(seq)}

\* every edge id attached to source sid is answered by a view that carries
\* that edge id and lists every destination B holds for it
FanOutSeen(out, rel, sid) ==
    \A e \in 1..edge_count :
        <<sid, e>> \in DOMAIN rel.A =>
            \A p \in DOMAIN rel.B :
                p[1] = e =>
                    \E i \in 1..Len(out) : /\ out[i].eid = e
                                           /\ p[2] \in Members(out[i].dids)

\* C12: an incidence add with sources {a, b} and destinations {c} gives one
\* edge id e, and the source-bound query of a and of b each returns a
\* hyperedge view that lists c and has edge id e: every source attached to
\* an edge id is answered with a view of that id listing its destinations.
C12_FanOut ==
    (IsSlice /\ relations[res.rid].incidence /\ res.did = Slice)
        => FanOutSeen(res.out, relations[res.rid], res.sid)

\* a view of edge id v.eid that lists all its sources and destinations and
\* gives each listed destination the weight B holds for it
FullView(v, rel) ==
    /\ v.eid \in 1..edge_count
    /\ Members(v.sids) = {p[1] : p \in {q \in DOMAIN rel.A : q[2] = v.eid}}
    /\ Members(v.dids) = {p[2] : p \in {q \in DOMAIN rel.B : q[1] = v.eid}}
    /\ Len(v.weights) = Len(v.dids)
    /\ \A j \in 1..Len(v.dids) : v.weights[j] = rel.B[<<v.eid, v.dids[j]>>]

\* what iterating the queried object yields
IterOf(impl, rel) ==
    IF impl = "Relation" THEN RelationIter(rel) ELSE PropertyIter(rel)

\* C13: in an incidence relation every view returned by a source-bound or
\* destination-bound slice query lists every source and every destination
\* of its edge id, with one weight per listed destination equal to the
\* stored weight, and is the view that iterating the relation yields for
\* that edge id.
C13_HyperedgeView ==
    (/\ IsSlice
     /\ relations[res.rid].incidence
     /\ res.sid = Slice \/ res.did = Slice)
        => \A i \in 1..Len(res.out) :
              /\ FullView(res.out[i], relations[res.rid])
              /\ res.out[i] \in Members(IterOf(res.impl, relations[res.rid]))

\* the step is a completed relation.add
IsRAdd == calls' = calls + 1 /\ res'.op = "add"

\* the (row, column) pairs an add realizes that the relation did not hold:
\* (edge id, destination) for incidence, (source, destination) for adjacency
Realized(rel, r, ids) ==
    IF rel.incidence
    THEN {<<r.eid, ids[n]>> : n \in Members(r.destination)} \ DOMAIN rel.B
    ELSE {<<ids[r.source[1]], ids[r.destination[1]]>>} \ DOMAIN rel.A

\* C14: len(relation) is the number of realized (edge id, destination)
\* pairs of an incidence relation and of stored (source, destination) pairs
\* of an adjacency relation: every add raises the length of its relation by
\* the number of pairs it realizes that were not yet held and leaves every
\* other length alone, and len() reports the number of pairs held.
C14_Length ==
    [][/\ IsRAdd =>
            \A rid \in DOMAIN relations :
                RelationLen(relations'[rid]) =
                    RelationLen(relations[rid])
                    + (IF rid = res'.rid
                       THEN Cardinality(Realized(relations[rid], res',
                                                 node_ids'))
                       ELSE 0)
       /\ res'.op = "len" =>
            LET rel == relations[res'.rid]
            IN  res'.val = Cardinality(DOMAIN (IF rel.incidence THEN rel.B
                                               ELSE rel.A))]_vars

\* len() of an incidence relation one of whose edge ids has two
\* destinations, while the adjacency relation holds a pair too
C14_Witness ==
    /\ res.op = "len"
    /\ relations[res.rid].incidence
    /\ res.val >= 2
    /\ \E e \in 1..edge_count :
          Cardinality({p \in DOMAIN relations[res.rid].B : p[1] = e}) = 2
    /\ \E rid \in DOMAIN relations :
          ~relations[rid].incidence /\ RelationLen(relations[rid]) = 1

\* =========================================================================
\* Graph.__delitem__ and Graph.__len__ of graphony/graph.py
\* =========================================================================

\* the relation field of a delete key: None, a relation name or whatever
\* else indexes Graph._relations, a dict keyed by relation id
RelationKeys ==
    {[by |-> "none", name |-> NoRel, rid |-> NoId],
     [by |-> "name", name |-> <<"f">>, rid |-> NoId],
     [by |-> "rid", name |-> NoRel, rid |-> 1]}

\* `for _, eid in rel.A[sid]` binds eid to the stored value, True, which as
\* a matrix index is 1
TrueIndex == 1

\* M without the entries whose key satisfies the test
Without(M, gone) == [p \in DOMAIN M \ gone |-> M[p]]

\* source, relation, destination: the first pass of the loop deletes
\* A[sid, eid] and B[eid, did] and returns; removing an absent element
\* changes nothing
DeleteEdge(rel, sid, did) ==
    IF RowA(rel, sid) = {} THEN rel
    ELSE [rel EXCEPT !.A = @ \ {<<sid, TrueIndex>>},
                     !.B = Without(@, {<<TrueIndex, did>>})]

\* source, relation, None: every pass assigns an empty vector to row eid of
\* B, then row sid of A is assigned an empty vector
DeleteRow(rel, sid) ==
    [rel EXCEPT
        !.A = {p \in @ : p[1] # sid},
        !.B = IF RowA(rel, sid) = {} THEN @
              ELSE Without(@, {p \in DOMAIN @ : p[1] = TrueIndex})]

\* a delete-all that clears the first matrix only
ClearA(rel) == [rel EXCEPT !.A = {}]

\* rel.A.clear(); rel.B.clear()
Clear(rel) == [rel EXCEPT !.A = {}, !.B = <<>>]

\* Graph.__delitem__((source, relation, destination)): the relations it
\* leaves and the exception it raised
DelItem(source, relation, destination) ==
    IF source # None
    THEN IF GetItem(source).err # "none"
         THEN [rels |-> relations, err |-> "KeyError"]
         ELSE IF relation.by # "none"
              THEN IF relation.by = "name" \/ relation.rid \notin DOMAIN relations
                   THEN [rels |-> relations, err |-> "KeyError"]
                   ELSE IF destination # None
                        THEN IF GetItem(destination).err # "none"
                             THEN [rels |-> relations, err |-> "KeyError"]
                             ELSE [rels |->
                                     [relations EXCEPT ![relation.rid] =
                                        DeleteEdge(@, GetItem(source).val,
                                                   GetItem(destination).val)],
                                   err |-> "none"]
                        ELSE [rels |->
                                [relations EXCEPT ![relation.rid] =
                                   DeleteRow(@, GetItem(source).val)],
                              err |-> "none"]
              ELSE [rels |-> relations, err |-> "none"]
    ELSE IF relation.by # "none" \/ destination # None
         THEN [rels |-> relations, err |-> "none"]
         ELSE [rels |-> [r \in DOMAIN relations |-> Clear(relations[r])],
               err |-> "none"]

\* Graph.__len__: sum(map(len, self._relations.values())), with
\* Relation.__len__ the number of entries of B
GraphLen ==
    LET RECURSIVE Sum(_)
        Sum(rids) == IF rids = {} THEN 0
                     ELSE LET r == CHOOSE x \in rids : TRUE
                          IN  Cardinality(DOMAIN relations[r].B)
                              + Sum(rids \ {r})
    IN  Sum(DOMAIN relations)

\* del G[source, relation, destination]
Delete(source, relation, destination) ==
    /\ Idle
    /\ LET d == DelItem(source, relation, destination)
       IN  /\ relations' = d.rels
           /\ res' = [op |-> "del", source |-> source, relation |-> relation,
                      destination |-> destination, err |-> d.err]
    /\ UNCHANGED <<node_ids, relation_ids, edge_count, any_pick, calls>>

\* len(G)
Length ==
    /\ Idle
    /\ res' = [op |-> "len", val |-> GraphLen]
    /\ UNCHANGED <<graph, any_pick, calls>>

\* adds, deletes, len(G) and list(G)
NextG ==
    \/ \E relation \in {<<"f">>, <<"_", "f">>}, source \in NodeNames,
          destination \in NodeNames, weight \in {"True"},
          eid \in 0..MaxCalls :
            Add(relation, source, destination, weight, eid)
    \/ \E source \in NodeNames \cup {None}, relation \in RelationKeys,
          destination \in NodeNames \cup {None} :
            Delete(source, relation, destination)
    \/ Length
    \/ Iterate
    \/ Release

SpecG == Init /\ [][NextG]_vars

\* ------------------------------------------- properties of SpecG
\* the edge ids some relation holds in A or in B
StoredEdgeIds ==
    UNION {{p[2] : p \in relations[r].A} \cup
           {p[1] : p \in DOMAIN relations[r].B} : r \in DOMAIN relations}

\* the step is an add that was given no edge id
Allocates == calls' = calls + 1 /\ res'.op = "add" /\ res'.given = NoId

\* C15: edge ids come from one counter shared by all relations: over adds
\* and deletes the counter never goes back, an add that supplies no edge id
\* receives the counter's next value, greater than every id handed out
\* before, whichever relation it targets, so no two such adds receive the
\* same id and an id is not handed out again after its edge was deleted.
C15_EdgeIds ==
    [][/\ edge_count' >= edge_count
       /\ Allocates => /\ res'.eid > edge_count
                       /\ res'.eid = edge_count']_vars

\* an add into a second relation that is handed a new id after an earlier
\* id was deleted from the graph
C15_Witness ==
    /\ res.op = "add"
    /\ res.given = NoId
    /\ Cardinality(DOMAIN relations) = 2
    /\ \E e \in 1..edge_count : e < res.eid /\ e \notin StoredEdgeIds

\* =========================================================================
\* Node(G, name) of graphony/node.py next to the adds of graphony/graph.py
\* =========================================================================

\* Node(G, name): a str id is resolved with Graph._upsert_node
MakeNode(name) ==
    /\ Idle
    /\ node_ids' = UpsertNode(node_ids, name)
    /\ res' = [op |-> "node", name |-> name, id |-> node_ids'[name]]
    /\ UNCHANGED <<relation_ids, edge_count, relations, any_pick, calls>>

\* adds, Node(G, name), G[name], len(G) and list(G); no deletes
NextN ==
    \/ \E relation \in {<<"f">>, <<"_", "f">>}, source \in NodeNames,
          destination \in NodeNames, weight \in Weights,
          eid \in 0..MaxCalls :
            Add(relation, source, destination, weight, eid)
    \/ \E name \in NodeNames : MakeNode(name)
    \/ \E key \in NodeNames : Lookup(key)
    \/ Length
    \/ Iterate
    \/ Release

SpecN == Init /\ [][NextN]_vars

\* C16: resolving a node name, as a string endpoint of add or through
\* Node(G, name), always yields the id the name was first given and creates
\* no second node, and two names never share an id, in every relation: a
\* name keeps its id over every step, ids are pairwise distinct, Node(G,
\* name) of a known name returns its id and leaves the registry alone, and
\* an add stores its edge under the ids of its two names and creates a node
\* for no other name.
C16_NodeUpsert ==
    [][/\ \A n \in DOMAIN node_ids :
            n \in DOMAIN node_ids' /\ node_ids'[n] = node_ids[n]
       /\ \A n, m \in DOMAIN node_ids' :
            n # m => node_ids'[n] # node_ids'[m]
       /\ res'.op = "node" =>
            /\ res'.id = node_ids'[res'.name]
            /\ DOMAIN node_ids' = DOMAIN node_ids \cup {res'.name}
       /\ (calls' = calls + 1 /\ res'.op = "add" /\ res'.err = "none") =>
            /\ DOMAIN node_ids' =
                 DOMAIN node_ids \cup {res'.source, res'.destination}
            /\ LET rel == relations'[relation_ids'[res'.relation]]
               IN  /\ <<node_ids'[res'.source], res'.eid>> \in rel.A
                   /\ <<res'.eid, node_ids'[res'.destination]>>
                        \in DOMAIN rel.B]_vars

\* Node(G, name) of a name that an add into one relation created, after
\* another relation used the same name
C16_Witness ==
    /\ res.op = "node"
    /\ Cardinality(DOMAIN node_ids) = 2
    /\ Cardinality({t[1] : t \in {u \in StoredTriples :
                                    u[2] = res.id \/ u[3] = res.id}}) = 2

\* C17: an adjacency relation stores at most one weight per (source,
\* destination) pair: an add leaves the pair holding the weight it was
\* given; re-adding a stored pair changes neither len(relation) nor any
\* other entry; repeating an identical add leaves the relation as it was;
\* and iterating the relation yields no pair twice.
C17_Overwrite ==
    [][/\ (IsRAdd /\ ~relations[res'.rid].incidence) =>
            LET old == relations[res'.rid]
                new == relations'[res'.rid]
                pair == <<node_ids'[res'.source[1]],
                          node_ids'[res'.destination[1]]>>
            IN  /\ pair \in DOMAIN new.A
                /\ new.A[pair] = res'.weight
                /\ pair \in DOMAIN old.A =>
                     /\ RelationLen(new) = RelationLen(old)
                     /\ DOMAIN new.A = DOMAIN old.A
                     /\ \A p \in DOMAIN old.A \ {pair} : new.A[p] = old.A[p]
                     /\ old.A[pair] = res'.weight => new = old
       /\ (res'.op = "each" /\ res'.impl = "Relation"
           /\ ~relations[res'.rid].incidence) =>
            \A i, j \in 1..Len(res'.out) :
                (/\ res'.out[i].sid = res'.out[j].sid
                 /\ res'.out[i].did = res'.out[j].did) => i = j]_vars

\* a second add into the adjacency relation that hit the pair the first
\* add stored
C17_Witness ==
    /\ res.op = "add"
    /\ ~relations[res.rid].incidence
    /\ calls = 2
    /\ edge_count = 0
    /\ RelationLen(relations[res.rid]) = 1

\* the step is del G[None, None, None]
DeletesAll ==
    /\ res'.op = "del"
    /\ res'.source = None
    /\ res'.relation.by = "none"
    /\ res'.destination = None

\* C18: after del G[None, None, None] every relation of the graph holds no
\* edge, iterating the graph yields nothing and len(G) is 0, whatever was
\* stored before.
C18_DeleteAll ==
    [][DeletesAll =>
        /\ res'.err = "none"
        /\ DOMAIN relations' = DOMAIN relations
        /\ \A r \in DOMAIN relations' :
              relations'[r].A = {} /\ DOMAIN relations'[r].B = {}
        /\ Iter'.out = <<>>
        /\ Iter'.err = "none"
        /\ GraphLen' = 0]_vars

\* del G[None, None, None] on a graph with two relations that were given an
\* edge each
C18_Witness ==
    /\ res.op = "del"
    /\ res.source = None
    /\ res.relation.by = "none"
    /\ res.destination = None
    /\ Cardinality(DOMAIN relations) = 2
    /\ edge_count = 2
    /\ calls = 2

\* C19: len(G) is the number of triples in the graph: after any sequence of
\* adds, len(G) equals the number of edges that iterating G yields, also
\* when the same (relation, source, destination) was added more than once.
C19_LenIsIterCount ==
    /\ res.op = "len" => (Iter.err = "none" /\ res.val = Len(Iter.out))
    /\ res.op = "iter" => (res.err = "none" /\ Len(res.out) = GraphLen)

\* C20: one incidence add with sources S, destinations D and weight w
\* allocates exactly one new edge id e when none is supplied and none when
\* an existing id e is supplied; afterwards A[s, e] is set for every s in S
\* and B[e, d] = w for every d in D, and no other entry of A or B and no
\* other relation is changed.
C20_IncidenceAdd ==
    [][(IsRAdd /\ relations[res'.rid].incidence) =>
        LET old == relations[res'.rid]
            new == relations'[res'.rid]
            e == res'.eid
            S == {<<node_ids'[n], e>> : n \in Members(res'.source)}
            D == {<<e, node_ids'[n]>> : n \in Members(res'.destination)}
        IN  /\ IF res'.given = NoId
               THEN edge_count' = edge_count + 1 /\ e = edge_count'
               ELSE edge_count' = edge_count /\ e = res'.given
            /\ DOMAIN new.A = DOMAIN old.A \cup S
            /\ \A p \in S : new.A[p] = "True"
            /\ \A p \in DOMAIN old.A \ S : new.A[p] = old.A[p]
            /\ DOMAIN new.B = DOMAIN old.B \cup D
            /\ \A p \in D : new.B[p] = res'.weight
            /\ \A p \in DOMAIN old.B \ D : new.B[p] = old.B[p]
            /\ \A r \in DOMAIN relations \ {res'.rid} :
                  relations'[r] = relations[r]
            /\ DOMAIN relations' = DOMAIN relations]_vars

\* an add of two sources and two destinations under an edge id that an
\* earlier add allocated
C20_Witness ==
    /\ res.op = "add"
    /\ relations[res.rid].incidence
    /\ res.given # NoId
    /\ Len(res.source) = 2
    /\ Len(res.destination) = 2
    /\ Cardinality({p \in DOMAIN relations[res.rid].A : p[2] = res.eid}) = 2

\* =========================================================================
\* relation.add when the first write to B raises
\* =========================================================================

\* an add that puts A back as it was before the exception leaves it
AddIncidenceUndone(rel, ids, source, eid) == rel

\* the incidence branch of add up to the exception: every A[s.n_id, eid]
\* is written, no B[eid, d.n_id] is, and nothing catches the exception
AddIncidenceRaising(rel, ids, source, eid) ==
    [rel EXCEPT !.A = AttachSources(@, ids, source, eid, "True")]

\* relation.add(source, destination, weight, eid) on an incidence relation,
\* with the matrix library raising on the first B[eid, d.n_id] = weight
RAddRaises(rid, source, destination, weight, eid) ==
    /\ calls < MaxCalls
    /\ Idle
    /\ eid = NoId \/ eid \in 1..edge_count
    /\ relations[rid].incidence
    /\ calls' = calls + 1
    /\ LET e == IF eid = NoId THEN NewEdge(edge_count) ELSE eid
           ids == GetNodes(GetNodes(node_ids, source), destination)
       IN  /\ node_ids' = ids
           /\ edge_count' = IF eid = NoId THEN NewEdge(edge_count)
                            ELSE edge_count
           /\ relations' =
                [relations EXCEPT
                   ![rid] = AddIncidenceRaising(@, ids, source, e)]
           /\ res' = [op |-> "add", rid |-> rid, source |-> source,
                      destination |-> destination, weight |-> weight,
                      given |-> eid, eid |-> e, err |-> "raised"]
    /\ UNCHANGED <<relation_ids, any_pick>>

\* adds that complete, adds that raise, len(relation) and list(relation)
NextF ==
    \/ \E rid \in DOMAIN Declared, source \in Sources \cup Singles,
          destination \in Destinations \cup Singles, weight \in RWeights,
          eid \in 0..MaxCalls :
            RAdd(rid, source, destination, weight, eid)
    \/ \E rid \in DOMAIN Declared, source \in Sources,
          destination \in Destinations, weight \in RWeights,
          eid \in 0..MaxCalls :
            RAddRaises(rid, source, destination, weight, eid)
    \/ \E rid \in DOMAIN Declared : RIterate(rid)
    \/ \E rid \in DOMAIN Declared : RLen(rid)
    \/ Release

SpecF == InitR /\ [][NextF]_vars

\* ------------------------------------------- properties of SpecF
\* the step is an incidence add that raised between its writes
RaisedAdd == calls' = calls + 1 /\ res'.op = "add" /\ res'.err = "raised"

\* C21: an incidence add that fails after its writes to A and before its
\* writes to B is not rolled back: the edge id is then stored in A for
\* every source, B is as it was before the add, so an id the add allocated
\* is in A and absent from B, and the counter keeps the allocation; no
\* later operation hands the id out again.
C21_NoRollback ==
    [][/\ edge_count' >= edge_count
       /\ RaisedAdd =>
            LET old == relations[res'.rid]
                new == relations'[res'.rid]
                e == res'.eid
            IN  /\ \A n \in Members(res'.source) :
                      <<node_ids'[n], e>> \in DOMAIN new.A
                /\ new.B = old.B
                /\ res'.given = NoId =>
                      /\ e = edge_count + 1
                      /\ edge_count' = e
                      /\ \A p \in DOMAIN new.B : p[1] # e]_vars

\* an add of two sources that raised under an edge id it allocated, leaving
\* the id in two entries of A and in none of B
C21_Witness ==
    /\ res.op = "add"
    /\ res.err = "raised"
    /\ res.given = NoId
    /\ Len(res.source) = 2
    /\ Cardinality({p \in DOMAIN relations[res.rid].A : p[2] = res.eid}) = 2
    /\ \A p \in DOMAIN relations[res.rid].B : p[1] # res.eid
    /\ edge_count = res.eid

\* =========================================================================
\* properties of Graph.__delitem__ with a bound key, under SpecG
\* =========================================================================

\* the relation id a delete key names, by relation name or by id
KeyRid(relation) ==
    IF relation.by = "name" THEN GetRelationId(relation.name)
    ELSE relation.rid

\* the step is del G[s, r, d] with s and d registered nodes and r a
\* relation that holds edges
DeletesOne ==
    /\ res'.op = "del"
    /\ res'.source \in DOMAIN node_ids
    /\ res'.destination \in DOMAIN node_ids
    /\ res'.relation.by # "none"
    /\ KeyRid(res'.relation) \in DOMAIN relations

\* C22: del G[s, r, d] removes the edges of relation r from s to d and
\* nothing else: it completes without an exception, and the triples that
\* iterating the graph yields afterwards are those it yielded before less
\* (r, s, d).
C22_PatternDelete ==
    [][DeletesOne =>
        LET t == <<KeyRid(res'.relation), node_ids[res'.source],
                   node_ids[res'.destination]>>
        IN  /\ res'.err = "none"
            /\ Iter'.err = "none"
            /\ Triples(Iter'.out) = Triples(Iter.out) \ {t}]_vars

\* C23: in every state reached by completed adds and deletes, the edge ids
\* with an entry in A are the edge ids with an entry in B, in every
\* relation.
C23_IncidenceConsistent ==
    \A r \in DOMAIN relations :
        {p[2] : p \in relations[r].A} =
        {p[1] : p \in DOMAIN relations[r].B}

\* =========================================================================
\* queries leave the graph as it is, under Spec
\* =========================================================================

\* C24: a query, whichever of source, relation and destination it binds,
\* also when it names a node or a relation the graph does not know and when
\* it ends in an error, leaves every relation's matrices, the registered
\* nodes and relations and the edge-id counter unchanged.
C24_ReadOnly ==
    [][res'.op \in {"call", "iter"} =>
        /\ node_ids' = node_ids
        /\ relation_ids' = relation_ids
        /\ edge_count' = edge_count
        /\ relations' = relations]_vars

\* a query on a graph holding two edges that named a source the graph does
\* not know and ended in KeyError
C24_Witness ==
    /\ IsCall
    /\ res.source # None
    /\ res.source \notin DOMAIN node_ids
    /\ res.err = "KeyError"
    /\ edge_count = 2
====
